---- MODULE Spec2Model ----
(***************************************************************************)
(* The compare-acl command of uhppoted-acl-s3: CompareACL.execute and the  *)
(* steps it drives (fetch, untar, verify, ParseTSV, GetACL, report,        *)
(* upload), in the two revisions of the command held by the repository.    *)
(***************************************************************************)
EXTENDS Integers, Sequences, FiniteSets, TLC

\* ------------------------------------------------------------------ bounds

\* Controllers are numbered 1..MaxDevice.
MaxDevice == 1
\* The wall clock runs over 0..MaxTime, in ticks.
MaxTime == 2
\* Ticks per clock second: time.Now() is finer than the second that
\* Format("acl-2006-01-02T150405.rpt") keeps.
TicksPerSecond == 2
\* Invocations of the command against one workdir.
MaxRuns == 2

\* -------------------------------------------------------------------- data

Devices == 1..MaxDevice
Cards == {1001, 1002}
Doors == {"doorA", "doorB"}

\* The record set of one device: card number -> permissions.
Records == UNION {[K -> Doors] : K \in SUBSET Cards}
\* acl.ACL: device identifier -> record set.
ACLs == UNION {[D -> Records] : D \in SUBSET Devices}

RECURSIVE SortedSeq(_)
SortedSeq(S) ==
    IF S = {} THEN <<>>
    ELSE LET m == CHOOSE x \in S : \A y \in S : x <= y
         IN <<m>> \o SortedSeq(S \ {m})

Range(s) == {s[i] : i \in DOMAIN s}

\* ------------------------------------------------------------- diff engine

RecordsOf(a, d) == IF d \in DOMAIN a THEN a[d] ELSE <<>>

\* compare with the field comparison of Updated left out.
compare_overlap(p, q) ==
    [Unchanged |-> SortedSeq({c \in DOMAIN p \cap DOMAIN q : p[c] = q[c]}),
     Updated   |-> SortedSeq(DOMAIN p \cap DOMAIN q),
     Added     |-> SortedSeq(DOMAIN q \ DOMAIN p),
     Deleted   |-> SortedSeq(DOMAIN p \ DOMAIN q)]

\* The Diff of one device: p its current records, q its authoritative ones.
compare(p, q) ==
    [Unchanged |-> SortedSeq({c \in DOMAIN p \cap DOMAIN q : p[c] = q[c]}),
     Updated   |-> SortedSeq({c \in DOMAIN p \cap DOMAIN q : p[c] # q[c]}),
     Added     |-> SortedSeq(DOMAIN q \ DOMAIN p),
     Deleted   |-> SortedSeq(DOMAIN p \ DOMAIN q)]

\* diff(current, authoritative): one Diff per device of either side.
Compare(src, dst) ==
    [d \in DOMAIN src \cup DOMAIN dst |-> compare(RecordsOf(src, d), RecordsOf(dst, d))]

\* ---------------------------------------------------------------- template

Tok(t, v) == [t |-> t, v |-> v]

RECURSIVE Cells(_)
\* {{range $list}}{{.}} ... {{end}}: one cell per record.
Cells(s) == IF s = <<>> THEN <<>> ELSE <<Tok("card", Head(s))>> \o Cells(Tail(s))

\* One device of the template: the DEVICE line and its conditional sections.
RenderDevice(id, value) ==
    <<Tok("DEVICE", id)>>
    \o (IF value.Unchanged # <<>> THEN <<Tok("Incorrect:", 0)>> \o Cells(value.Updated) ELSE <<>>)
    \o (IF value.Added # <<>> THEN <<Tok("Missing:", 0)>> \o Cells(value.Added) ELSE <<>>)
    \o (IF value.Deleted # <<>> THEN <<Tok("Unexpected:", 0)>> \o Cells(value.Deleted) ELSE <<>>)

RECURSIVE RenderDevices(_, _)
\* {{range $id,$value := .Diffs}}: the devices in ascending order.
RenderDevices(ids, d) ==
    IF ids = <<>> THEN <<>>
    ELSE RenderDevice(Head(ids), d[Head(ids)]) \o RenderDevices(Tail(ids), d)

\* The default template, executed on (DateTime, Diffs).
Render(datetime, d) ==
    <<Tok("ACL DIFF REPORT", datetime)>> \o RenderDevices(SortedSeq(DOMAIN d), d)

\* The tokens of device id's part of a rendered report.
RECURSIVE Section(_, _, _)
Section(text, id, inside) ==
    IF text = <<>> THEN <<>>
    ELSE IF Head(text).t = "DEVICE"
         THEN IF Head(text).v = id THEN Section(Tail(text), id, TRUE)
              ELSE Section(Tail(text), id, FALSE)
         ELSE (IF inside THEN <<Head(text)>> ELSE <<>>) \o Section(Tail(text), id, inside)

Has(text, id, title) == \E i \in DOMAIN Section(text, id, FALSE) : Section(text, id, FALSE)[i].t = title
Rendered(text, id) == \E i \in DOMAIN text : text[i] = Tok("DEVICE", id)

\* ------------------------------------------------------------ collaborators

\* Signers with a <uname>.pub in the keys directory.
KeyStore == {"alice"}
\* The signer whose private key is c.keyfile.
ReportSigner == "uhppoted"

\* A detached signature: who made it, over which bytes.
Sig(by, over) == [by |-> by, over |-> over]
NoSig == Sig("", "")

Blob(wellformed, uname, tsv, signature) ==
    [wellformed |-> wellformed, uname |-> uname, tsv |-> tsv, signature |-> signature]
NoBlob == Blob(FALSE, "", "", NoSig)

\* What a fetch can return: a signed ACL, a tampered signature, an unknown
\* signer, a signed payload that is no ACL table, a payload blob whose name
\* has no stem, and a container that is not well-formed.
Archives ==
    {Blob(TRUE, "alice", "P1", Sig("alice", "P1")),
     Blob(TRUE, "alice", "P1", Sig("alice", "P0")),
     Blob(TRUE, "mallory", "P1", Sig("mallory", "P1")),
     Blob(TRUE, "alice", "garbage", Sig("alice", "garbage")),
     Blob(TRUE, "", "P1", Sig("alice", "P1")),
     Blob(FALSE, "alice", "P1", Sig("alice", "P1"))}

\* f(uri, log): a transport error, or the bytes at the URI.
FetchOutcomes ==
    {[err |-> "TransportError", b |-> NoBlob]} \cup {[err |-> "nil", b |-> a] : a \in Archives}

\* untar(r): the payload, the signature and the signer of a well-formed
\* archive; nothing but the error otherwise.
untar(b) ==
    IF ~b.wellformed
    THEN [tsv |-> "", signature |-> NoSig, uname |-> "", err |-> "MalformedArchiveError"]
    ELSE IF b.uname = ""
    THEN [tsv |-> "", signature |-> NoSig, uname |-> "", err |-> "MissingSignerIdentityError"]
    ELSE [tsv |-> b.tsv, signature |-> b.signature, uname |-> b.uname, err |-> "nil"]

\* verify(uname, tsv, signature, keysdir)
verify(uname, tsv, signature) ==
    IF uname \notin KeyStore THEN "UnknownSignerError"
    ELSE IF signature # Sig(uname, tsv) THEN "SignatureMismatchError"
    ELSE "nil"

\* The authoritative ACL of payload "P1" and the device states GetACL can
\* find: the controller out of step with it, and in step with it.
Authoritative == [d \in {1} |-> [c \in {1001} |-> "doorA"]]
OutOfStep == [d \in {1} |-> [c \in {1001, 1002} |-> IF c = 1001 THEN "doorB" ELSE "doorA"]]
Currents == {OutOfStep, Authoritative}

\* acl.ParseTSV(tsv, devices): a table without its header row is an error.
ParseTSV(tsv) ==
    IF tsv = "P1" THEN [list |-> Authoritative, err |-> "nil"]
    ELSE [list |-> <<>>, err |-> "SchemaError"]

\* acl.GetACL(u, devices)
GetACLOutcomes ==
    {[err |-> "DeviceStateError", current |-> <<>>]} \cup {[err |-> "nil", current |-> a] : a \in Currents}

\* The clock second of tick t.
Second(t) == t \div TicksPerSecond

\* report(current, list, template, w): the text written to w.
report(current, list, t) == Render(Second(t), Compare(current, list))

\* ------------------------------------------------------------------- state

VARIABLES
    cfg,      \* the CompareACL options, and the revision of the command
    pc,       \* where execute is
    loc,      \* execute's locals: b, tsv, signature, uname, err, list, current
    log,      \* the log entries of this run
    result,   \* what execute returned
    now,      \* the wall clock, in ticks
    files,    \* workdir: file name -> content
    stored,   \* the object at the report URL
    stdout,   \* what this run printed
    runs,     \* invocations so far
    diffs,    \* the diff the last report was built from
    hist      \* what the collaborators answered and what this run did

vars == <<cfg, pc, loc, log, result, now, files, stored, stdout, runs, diffs, hist>>

\* The options of one invocation. Revision 1 is commands/compare_acl.go;
\* revision 2 is the other revision of the command, which has neither
\* no-report nor a report URL. noverify is a field of both with no flag.
Configs ==
    {c \in [revision : {1, 2}, noverify : BOOLEAN, noreport : BOOLEAN,
            rpt : {"", "s3://bucket/report"}] :
        c.revision = 2 => (~c.noreport /\ c.rpt = "")}

NoLocals ==
    [b |-> NoBlob, tsv |-> "", signature |-> NoSig, uname |-> "", err |-> "nil",
     list |-> <<>>, current |-> <<>>]

\* Nothing has been asked of a collaborator and nothing done; f and s are
\* the workdir and the report URL as the run found them.
NoHist(f, s) ==
    [fetchErr |-> "nil", untarErr |-> "nil", verifyCalled |-> FALSE, verifyErr |-> "nil",
     parseCalled |-> FALSE, parseErr |-> "nil", polled |-> FALSE, getErr |-> "nil",
     reportCalled |-> FALSE, reportErr |-> "nil", created |-> FALSE, truncated |-> FALSE,
     printed |-> FALSE, uploadErr |-> "nil", storeCalled |-> FALSE, archive |-> <<>>,
     filesAtStart |-> f, storedAtStart |-> s, filesAfterReport |-> f]

Init ==
    /\ cfg \in Configs
    /\ pc = "fetch"
    /\ loc = NoLocals
    /\ log = <<>>
    /\ result = "running"
    /\ now = 0
    /\ files = <<>>
    /\ stored = <<>>
    /\ stdout = <<>>
    /\ runs = 1
    /\ diffs = <<>>
    /\ hist = NoHist(<<>>, <<>>)

\* return err
Return(err) == pc' = "done" /\ result' = err

\* Falling through to the next statement of execute.
Goto(next) == pc' = next /\ result' = result

\* ----------------------------------------------------------------- execute

\* b, err := f(uri, log); if err != nil { return err }
Fetch ==
    /\ pc = "fetch"
    /\ \E r \in FetchOutcomes :
        /\ hist' = [hist EXCEPT !.fetchErr = r.err]
        /\ IF r.err # "nil"
           THEN /\ log' = log \o <<"Fetching ACL">>
                /\ loc' = [loc EXCEPT !.err = r.err]
                /\ Return(r.err)
           ELSE /\ log' = log \o <<"Fetching ACL", "Fetched ACL">>
                /\ loc' = [loc EXCEPT !.b = r.b, !.err = "nil"]
                /\ Goto("untar")
    /\ UNCHANGED <<cfg, now, files, stored, stdout, runs, diffs>>

\* tsv, signature, uname, err := untar(r), and the log entry after it: err
\* is not looked at.
Untar ==
    /\ pc = "untar"
    /\ LET r == untar(loc.b) IN
        /\ loc' = [loc EXCEPT !.tsv = r.tsv, !.signature = r.signature,
                              !.uname = r.uname, !.err = r.err]
        /\ hist' = [hist EXCEPT !.untarErr = r.err]
    /\ log' = log \o <<"Extracted ACL">>
    /\ Goto("verify")
    /\ UNCHANGED <<cfg, now, files, stored, stdout, runs, diffs>>

\* if !c.noverify { if err := verify(...); err != nil { return err } }
Verify ==
    /\ pc = "verify"
    /\ IF ~cfg.noverify
       THEN LET e == verify(loc.uname, loc.tsv, loc.signature) IN
            /\ hist' = [hist EXCEPT !.verifyCalled = TRUE, !.verifyErr = e]
            /\ IF e # "nil" THEN Return(e) ELSE Goto("parse")
       ELSE /\ hist' = hist
            /\ Goto("parse")
    /\ UNCHANGED <<cfg, loc, log, now, files, stored, stdout, runs, diffs>>

\* One "Retrieved" entry per device of the list.
Retrieved(list) == [i \in 1..Cardinality(DOMAIN list) |-> "Retrieved records"]

\* list, err := acl.ParseTSV(...); if err != nil { return err }; the log loop
Parse ==
    /\ pc = "parse"
    /\ LET r == ParseTSV(loc.tsv) IN
        /\ hist' = [hist EXCEPT !.parseCalled = TRUE, !.parseErr = r.err]
        /\ loc' = [loc EXCEPT !.list = r.list, !.err = r.err]
        /\ IF r.err # "nil"
           THEN log' = log /\ Return(r.err)
           ELSE log' = log \o Retrieved(r.list) /\ Goto("getacl")
    /\ UNCHANGED <<cfg, now, files, stored, stdout, runs, diffs>>

\* GetACL answered err and the current ACL is asked for no further.
GetACLFailed_ignored(err) == Goto("report")

\* if err != nil { return err }
GetACLFailed(err) == Return(err)

\* current, err := acl.GetACL(u, devices)
GetACL ==
    /\ pc = "getacl"
    /\ \E r \in GetACLOutcomes :
        /\ hist' = [hist EXCEPT !.polled = TRUE, !.getErr = r.err]
        /\ loc' = [loc EXCEPT !.current = r.current, !.err = r.err]
        /\ IF r.err # "nil" THEN GetACLFailed(r.err) ELSE Goto("report")
    /\ UNCHANGED <<cfg, log, now, files, stored, stdout, runs, diffs>>

\* ------------------------------------------------------------------ report

\* time.Now().Format("acl-2006-01-02T150405.rpt"): the name keeps the clock
\* second of t and nothing finer.
Format(t) == [stem |-> "acl-" \o ToString(Second(t)), ext |-> "rpt"]

\* os.Create(file): the file is there and empty, whether or not it was.
Create(name) == [n \in DOMAIN files \cup {name} |-> IF n = name THEN <<>> ELSE files[n]]

\* The file f after report(...) wrote text to it.
Write(f, name, text) == [n \in DOMAIN f |-> IF n = name THEN text ELSE f[n]]

\* execute after c.report returned err: the upload is asked for only with a
\* report URL.
AfterReport(err) ==
    IF err # "nil" THEN Return(err)
    ELSE IF cfg.rpt # "" THEN Goto("upload")
    ELSE Return("nil")

\* c.report with noreport set: what report(..., os.Stdout) answered is
\* dropped and nil is returned.
ReportStdout ==
    /\ pc = "report" /\ cfg.revision = 1 /\ cfg.noreport
    /\ \E ok \in BOOLEAN :
        /\ stdout' = IF ok THEN report(loc.current, loc.list, now) ELSE <<>>
        /\ hist' = [hist EXCEPT !.reportCalled = TRUE, !.printed = ok,
                                !.reportErr = IF ok THEN "nil" ELSE "RenderError",
                                !.filesAfterReport = files]
    /\ diffs' = Compare(loc.current, loc.list)
    /\ log' = log \o <<"Generating ACL 'diff' report">>
    /\ AfterReport("nil")
    /\ UNCHANGED <<cfg, loc, now, files, stored, runs>>

\* c.report without noreport: the file named after the clock second is
\* created (an error returns), written and closed; what report(..., f)
\* answered is returned.
ReportFile ==
    /\ pc = "report" /\ cfg.revision = 1 /\ ~cfg.noreport
    /\ \E t \in now..MaxTime, o \in {"nil", "CreateError", "RenderError"} :
        LET name == Format(t) IN
        /\ now' = t
        /\ IF o = "CreateError"
           THEN /\ files' = files
                /\ log' = log \o <<"Generating ACL 'diff' report">>
                /\ hist' = [hist EXCEPT !.reportCalled = TRUE, !.reportErr = o,
                                        !.filesAfterReport = files]
           ELSE /\ files' = Write(Create(name), name,
                                  IF o = "nil" THEN report(loc.current, loc.list, t) ELSE <<>>)
                /\ log' = log \o <<"Generating ACL 'diff' report", "Writing 'diff' report">>
                /\ hist' = [hist EXCEPT !.reportCalled = TRUE, !.reportErr = o,
                                        !.created = TRUE,
                                        !.truncated = (name \in DOMAIN files),
                                        !.filesAfterReport = files']
        /\ AfterReport(o)
    /\ diffs' = Compare(loc.current, loc.list)
    /\ UNCHANGED <<cfg, loc, stored, stdout, runs>>

\* Revision 2: report(current, list, c.workdir, log), what it answers
\* dropped, and then return fmt.Errorf("OOOPS").
ReportOOOPS ==
    /\ pc = "report" /\ cfg.revision = 2
    /\ \E t \in now..MaxTime, o \in {"nil", "CreateError", "RenderError"} :
        LET name == Format(t) IN
        /\ now' = t
        /\ IF o = "CreateError"
           THEN /\ files' = files
                /\ hist' = [hist EXCEPT !.reportCalled = TRUE, !.reportErr = o,
                                        !.filesAfterReport = files]
           ELSE /\ files' = Write(Create(name), name,
                                  IF o = "nil" THEN report(loc.current, loc.list, t) ELSE <<>>)
                /\ hist' = [hist EXCEPT !.reportCalled = TRUE, !.reportErr = o,
                                        !.created = TRUE,
                                        !.truncated = (name \in DOMAIN files),
                                        !.filesAfterReport = files']
    /\ diffs' = Compare(loc.current, loc.list)
    /\ Return("OOOPS")
    /\ UNCHANGED <<cfg, loc, log, stored, stdout, runs>>

\* ------------------------------------------------------------------ upload

File(name, data) == [name |-> name, data |-> data]
SignatureName == [stem |-> "signature", ext |-> ""]

\* targz(files, &b): the named blobs, in order.
targz(fs) == fs

\* upload ends: err is what the failing call answered ("nil": none failed),
\* ret what upload returns, arch the archive built (if any), called whether
\* the store was called, obj the object then at the report URL.
UploadEnds(err, ret, arch, called, obj) ==
    /\ hist' = [hist EXCEPT !.uploadErr = err, !.archive = arch, !.storeCalled = called]
    /\ stored' = obj
    /\ Return(ret)

\* sign answered err and the report is stored without a signature.
uploadSignFailed_unsigned(err, filename, rpt) ==
    LET archive == targz(<<File(filename, rpt), File(SignatureName, Sig("", rpt))>>)
    IN UploadEnds(err, "nil", <<archive>>, TRUE, <<archive>>)

\* signature, err := sign(rpt, c.keyfile); if err != nil { return err }
uploadSignFailed(err, filename, rpt) == UploadEnds(err, err, <<>>, FALSE, stored)

\* What can fail in upload, in the order of the calls; "nil": nothing.
UploadOutcomes == {"RenderError", "SigningError", "TarError", "StoreError", "nil"}

\* c.upload: render, sign, targz, store.
Upload ==
    /\ pc = "upload"
    /\ \E o \in UploadOutcomes, t \in now..MaxTime :
        LET rpt == report(loc.current, loc.list, t)
            filename == Format(t)
            signature == Sig(ReportSigner, rpt)
            archive == targz(<<File(filename, rpt), File(SignatureName, signature)>>)
        IN
        /\ o = "RenderError" => t = now
        /\ now' = t
        /\ CASE o = "RenderError" -> UploadEnds(o, o, <<>>, FALSE, stored)
             [] o = "SigningError" -> uploadSignFailed(o, filename, rpt)
             [] o = "TarError" -> UploadEnds(o, o, <<>>, FALSE, stored)
             [] o = "StoreError" -> UploadEnds(o, o, <<archive>>, TRUE, stored)
             [] o = "nil" -> UploadEnds(o, o, <<archive>>, TRUE, <<archive>>)
        /\ log' = log \o <<"Uploading ACL 'diff' report">>
                      \o (IF o \in {"StoreError", "nil"} THEN <<"tar'd report">> ELSE <<>>)
                      \o (IF o = "nil" THEN <<"Uploaded">> ELSE <<>>)
    /\ UNCHANGED <<cfg, loc, files, stdout, runs, diffs>>

\* The command is run again, with the same options and workdir.
Invoke ==
    /\ pc = "done" /\ runs < MaxRuns
    /\ runs' = runs + 1
    /\ pc' = "fetch"
    /\ loc' = NoLocals
    /\ log' = <<>>
    /\ result' = "running"
    /\ stdout' = <<>>
    /\ diffs' = <<>>
    /\ hist' = NoHist(files, stored)
    /\ UNCHANGED <<cfg, now, files, stored>>

Next ==
    \/ Fetch
    \/ Untar
    \/ Verify
    \/ Parse
    \/ GetACL
    \/ ReportStdout
    \/ ReportFile
    \/ ReportOOOPS
    \/ Upload
    \/ Invoke

Spec == Init /\ [][Next]_vars

\* ------------------------------------------------- the diff engine by itself

\* Any two ACLs over the devices and cards, handed to report(...).
DiffInit ==
    /\ cfg = [revision |-> 1, noverify |-> FALSE, noreport |-> TRUE, rpt |-> ""]
    /\ pc = "diff"
    /\ \E c \in ACLs, l \in ACLs : loc = [NoLocals EXCEPT !.current = c, !.list = l]
    /\ log = <<>>
    /\ result = "running"
    /\ now = 0
    /\ files = <<>>
    /\ stored = <<>>
    /\ stdout = <<>>
    /\ runs = 1
    /\ diffs = <<>>
    /\ hist = NoHist(<<>>, <<>>)

\* report(...), first half: the diff of the two ACLs.
DiffCompare ==
    /\ pc = "diff"
    /\ diffs' = Compare(loc.current, loc.list)
    /\ pc' = "render"
    /\ UNCHANGED <<cfg, loc, log, result, now, files, stored, stdout, runs, hist>>

\* report(...), second half: the template executed on the diff.
DiffRender ==
    /\ pc = "render"
    /\ stdout' = Render(Second(now), diffs)
    /\ pc' = "rendered"
    /\ UNCHANGED <<cfg, loc, log, result, now, files, stored, runs, diffs, hist>>

DiffNext == DiffCompare \/ DiffRender

DiffSpec == DiffInit /\ [][DiffNext]_vars

\* ------------------------------------------------------------------ claims

\* The first error among the steps before the report, "nil" if none.
EarlierError ==
    IF hist.fetchErr # "nil" THEN hist.fetchErr
    ELSE IF hist.verifyErr # "nil" THEN hist.verifyErr
    ELSE IF hist.parseErr # "nil" THEN hist.parseErr
    ELSE hist.getErr

\* C1: if the fetch, the verification (noverify false), the parse or the
\* retrieval of the current ACL fails, execute returns that error and the
\* run creates no report file, prints no report and stores nothing.
C1_ReportOnlyAfterSuccess ==
    EarlierError # "nil" =>
        /\ pc = "done" /\ result = EarlierError
        /\ ~hist.reportCalled /\ ~hist.created /\ ~hist.printed /\ ~hist.storeCalled
        /\ files = hist.filesAtStart /\ stored = hist.storedAtStart /\ stdout = <<>>

\* C1 witness: the device state cannot be retrieved in a run that found a
\* report file of an earlier run in the workdir.
C1_Witness ==
    /\ pc = "done" /\ hist.getErr = "DeviceStateError"
    /\ files # <<>> /\ runs = 2

Keys(a, d) == DOMAIN RecordsOf(a, d)

\* C2: for every device of either ACL the four classifications are pairwise
\* disjoint, list no key twice, and together hold exactly the record keys of
\* both sides; the diff has exactly the devices of either side.
C2_DiffPartition ==
    pc \in {"render", "rendered"} =>
        /\ DOMAIN diffs = DOMAIN loc.current \cup DOMAIN loc.list
        /\ \A d \in DOMAIN diffs :
            LET U == Range(diffs[d].Unchanged)
                P == Range(diffs[d].Updated)
                A == Range(diffs[d].Added)
                D == Range(diffs[d].Deleted)
            IN /\ U \cap P = {} /\ U \cap A = {} /\ U \cap D = {}
               /\ P \cap A = {} /\ P \cap D = {} /\ A \cap D = {}
               /\ U \cup P \cup A \cup D = Keys(loc.current, d) \cup Keys(loc.list, d)
               /\ Len(diffs[d].Unchanged) = Cardinality(U)
               /\ Len(diffs[d].Updated) = Cardinality(P)
               /\ Len(diffs[d].Added) = Cardinality(A)
               /\ Len(diffs[d].Deleted) = Cardinality(D)

\* C2 witness: a device with an updated record and a record the
\* authoritative ACL does not have.
C2_Witness ==
    /\ pc = "rendered"
    /\ \E d \in DOMAIN diffs : diffs[d].Updated # <<>> /\ diffs[d].Deleted # <<>>

\* C3: when untar returns an error, execute returns an error and neither
\* parses the payload, nor polls the devices, nor reports, nor uploads,
\* whatever noverify is.
C3_MalformedArchiveIsFatal ==
    hist.untarErr # "nil" =>
        /\ pc = "done" => result # "nil"
        /\ ~hist.parseCalled /\ ~hist.polled /\ ~hist.reportCalled /\ ~hist.storeCalled

\* C4: a run that parses the payload without having called verify has
\* logged the bypass before.
C4_BypassIsLogged ==
    (hist.parseCalled /\ ~hist.verifyCalled) =>
        \E i \in DOMAIN log : log[i] = "Signature verification bypassed"

\* C5: when sign fails, execute returns that error, nothing is stored to the
\* report URL, and the workdir is as the report step left it, the report
\* file of this run included.
C5_SignFailureKeepsLocalReport ==
    hist.uploadErr = "SigningError" =>
        /\ pc = "done" /\ result = "SigningError"
        /\ ~hist.storeCalled /\ stored = hist.storedAtStart
        /\ files = hist.filesAfterReport
        /\ (hist.created /\ hist.reportErr = "nil") =>
               \E t \in 0..now :
                   /\ Format(t) \in DOMAIN files
                   /\ files[Format(t)] = report(loc.current, loc.list, t)

\* C5 witness: sign fails in a run that wrote its local report, with the
\* report of an earlier run at the report URL.
C5_Witness ==
    /\ hist.uploadErr = "SigningError" /\ hist.created /\ hist.reportErr = "nil"
    /\ stored # <<>>

\* C6: in revision 1, a report that cannot be rendered or written makes
\* execute return that error, with noreport and without.
C6_ReportFailureIsReturned ==
    (cfg.revision = 1 /\ hist.reportErr # "nil") =>
        (pc = "done" /\ result = hist.reportErr)

\* C7: every device of the diff is rendered, with 'Incorrect' iff Updated
\* is non-empty, 'Missing' iff Added is, 'Unexpected' iff Deleted is.
C7_SectionsFollowTheirCollection ==
    pc = "rendered" =>
        \A d \in DOMAIN diffs :
            /\ Rendered(stdout, d)
            /\ Has(stdout, d, "Incorrect:") <=> (diffs[d].Updated # <<>>)
            /\ Has(stdout, d, "Missing:") <=> (diffs[d].Added # <<>>)
            /\ Has(stdout, d, "Unexpected:") <=> (diffs[d].Deleted # <<>>)

\* Every call of the run succeeded (the verification where it was called).
AllSucceeded ==
    /\ hist.fetchErr = "nil" /\ hist.untarErr = "nil" /\ hist.verifyErr = "nil"
    /\ hist.parseErr = "nil" /\ hist.getErr = "nil" /\ hist.reportErr = "nil"
    /\ hist.uploadErr = "nil"

\* C8: in either revision, execute returns nil when every step succeeded.
C8_SuccessReturnsNil ==
    (pc = "done" /\ AllSucceeded) => result = "nil"

\* C9: the archive upload builds holds the report and a blob named
\* 'signature' with the signer's signature over the report bytes, and the
\* stem of the report blob's name is the signer identifier.
C9_ArchiveNamesItsSigner ==
    \A i \in DOMAIN hist.archive :
        LET a == hist.archive[i] IN
        /\ Len(a) = 2
        /\ a[2].name = SignatureName
        /\ a[2].data = Sig(ReportSigner, a[1].data)
        /\ a[1].name.stem = ReportSigner

\* C10: in revision 1, no report step creates a file that is already in
\* the workdir.
C10_ReportFileNeverTruncated ==
    cfg.revision = 1 => ~hist.truncated

====
